---------------------------- MODULE Spec2Model ----------------------------
(***************************************************************************)
(* letterbox: SMTP to Maildir delivery agent (src/main.go).                *)
(*                                                                         *)
(* The model covers the start-up (parseHosts), the connection hook         *)
(* (onNewConnection), onNewMail and the four envelope methods              *)
(* (AddRecipient, BeginData, Write, Close), together with the calls they   *)
(* make on the mailbox store (maildir.Dir.Create, Dir.NewDelivery,         *)
(* Delivery.Write, Delivery.Close).                                        *)
(*                                                                         *)
(* Strings are sequences of one-character strings, so that the string      *)
(* functions of the code (strings.Contains, strings.Split, path.Clean,     *)
(* path.Base, path.Join) are computed character by character.              *)
(***************************************************************************)
EXTENDS Integers, Sequences, FiniteSets, TLC

VARIABLES
    phase,            \* "startup" before parseHosts has run, then "serving"
    cfg,              \* the decoded configuration: [Hosts, Emails]
    allowedHosts,     \* global allowedHosts  []net.IP
    allowedNetworks,  \* global allowedNetworks []*net.IPNet
    sess,             \* per connection: the hook's verdict and the envelope
    store,            \* every maildir.Delivery ever opened, by handle
    last,             \* the last hook / envelope call: result and store calls
    addr,             \* an address whose local mailbox name is derived
    derived,          \* the name and the maildir path derived from addr
    hist,             \* per envelope, what the calls made on it so far were
    logger            \* cmdline.Debug and what log.Printf has written

vars == <<phase, cfg, allowedHosts, allowedNetworks, sess, store, last,
          addr, derived, hist, logger>>

-----------------------------------------------------------------------------
(* Bounds of the model *)

\* longest address whose local mailbox name is derived
MaxAddrLen == 4
\* width of a modelled IP address, in bits
AddrBits == 2
\* longest hosts list of a configuration
MaxHosts == 2
\* longest emails list of a configuration
MaxEmails == 2
\* most recipients an envelope accepts
MaxRcpts == 2
\* most deliveries opened over the life of the store, and most maildirs an
\* envelope records
MaxStore == 2
\* most lines written to one delivery
MaxLines == 2
\* most addresses offered to one envelope whose history is kept
MaxOffered == 3
SeqsUpTo(S, n) == UNION {[1..k -> S] : k \in 0..n}

-----------------------------------------------------------------------------
(* Strings *)

\* the characters of the addresses whose local mailbox name is derived
Chars == {"a", ".", "/", "@"}

\* strings.Contains(s, "@")
HasAt(s) == \E i \in 1..Len(s) : s[i] = "@"

\* strings.Split(s, "@")[0]: the text before the first "@" (all of s if none)
BeforeAt(s) ==
    IF HasAt(s)
    THEN SubSeq(s, 1, (CHOOSE i \in 1..Len(s) :
                          s[i] = "@" /\ \A j \in 1..(i-1) : s[j] # "@") - 1)
    ELSE s

\* path.Clean's inner loop after "..": out.w--, then back to the previous "/"
RECURSIVE Backtrack(_, _, _)
Backtrack(out, w, dotdot) ==
    IF w > dotdot /\ out[w + 1] # "/"
    THEN Backtrack(out, w - 1, dotdot)
    ELSE SubSeq(out, 1, w)

\* the end (0-based, exclusive) of the path element starting at r
RECURSIVE ElementEnd(_, _)
ElementEnd(p, r) ==
    IF r < Len(p) /\ p[r + 1] # "/" THEN ElementEnd(p, r + 1) ELSE r

\* path.Clean's main loop: r is the 0-based read offset, out the buffer
RECURSIVE CleanLoop(_, _, _, _)
CleanLoop(p, r, out, dotdot) ==
    LET n == Len(p)
        rooted == p[1] = "/"
    IN  IF r >= n THEN out
        ELSE IF p[r + 1] = "/" THEN CleanLoop(p, r + 1, out, dotdot)
        ELSE IF p[r + 1] = "." /\ (r + 1 = n \/ p[r + 2] = "/")
             THEN CleanLoop(p, r + 1, out, dotdot)
        ELSE IF p[r + 1] = "." /\ p[r + 2] = "."
                /\ (r + 2 = n \/ p[r + 3] = "/")
             THEN IF Len(out) > dotdot
                  THEN CleanLoop(p, r + 2,
                                 Backtrack(out, Len(out) - 1, dotdot), dotdot)
                  ELSE IF ~rooted
                  THEN LET o2 == (IF Len(out) > 0 THEN Append(out, "/")
                                  ELSE out) \o <<".", ".">>
                       IN  CleanLoop(p, r + 2, o2, Len(o2))
                  ELSE CleanLoop(p, r + 2, out, dotdot)
        ELSE LET o1 == IF (rooted /\ Len(out) # 1) \/ (~rooted /\ Len(out) # 0)
                       THEN Append(out, "/") ELSE out
                 e  == ElementEnd(p, r)
             IN  CleanLoop(p, e, o1 \o SubSeq(p, r + 1, e), dotdot)

\* path.Clean
Clean(p) ==
    IF p = <<>> THEN <<".">>
    ELSE LET rooted == p[1] = "/"
             out == IF rooted THEN CleanLoop(p, 1, <<"/">>, 1)
                    ELSE CleanLoop(p, 0, <<>>, 0)
         IN  IF out = <<>> THEN <<".">> ELSE out

\* path.Base: strip the trailing slashes
RECURSIVE StripSlashes(_)
StripSlashes(p) ==
    IF Len(p) > 0 /\ p[Len(p)] = "/"
    THEN StripSlashes(SubSeq(p, 1, Len(p) - 1))
    ELSE p

\* path.Base: index of the last "/" (0 if none)
LastSlash(p) ==
    IF \E i \in 1..Len(p) : p[i] = "/"
    THEN CHOOSE i \in 1..Len(p) :
             p[i] = "/" /\ \A j \in (i+1)..Len(p) : p[j] # "/"
    ELSE 0

\* path.Base
Base(p) ==
    IF p = <<>> THEN <<".">>
    ELSE LET s == StripSlashes(p)
             t == SubSeq(s, LastSlash(s) + 1, Len(s))
         IN  IF t = <<>> THEN <<"/">> ELSE t

\* path.Join(a, b)
Join(a, b) ==
    IF a = <<>> /\ b = <<>> THEN <<>>
    ELSE IF a = <<>> THEN Clean(b)
    ELSE IF b = <<>> THEN Clean(a)
    ELSE Clean(a \o <<"/">> \o b)

\* cmdline.Maildirs, the top level of the user maildirs ("/v/m" stands for
\* the default "/var/spool/maildirs")
Maildirs == <<"/", "v", "/", "m">>

\* user := path.Base(path.Clean(strings.Split(rcpt.Email(), "@")[0]))
LocalName(email) == Base(Clean(BeforeAt(email)))

\* userDir := maildir.Dir(path.Join(cmdline.Maildirs, user))
UserDir(email) == Join(Maildirs, LocalName(email))

-----------------------------------------------------------------------------
(* IP addresses, networks and the hosts list *)

RECURSIVE Pow2(_)
Pow2(n) == IF n = 0 THEN 1 ELSE 2 * Pow2(n - 1)

IPVals == 0..(Pow2(AddrBits) - 1)

\* a net.IP after the To4 normalisation Equal and Contains apply: its family
\* and its bits; NilIP is the nil IP that net.ParseIP returns for a non-address
IPs == [fam : {4}, val : IPVals] \cup [fam : {6}, val : {0, 1}]
NilIP == [fam |-> 0, val |-> 0]

\* ip.Mask(m) for a prefix of len bits
MaskIP(val, len) ==
    (val \div Pow2(AddrBits - len)) * Pow2(AddrBits - len)

\* the entries a hosts list may hold: text that net.ParseCIDR accepts, text
\* that net.ParseIP accepts, and anything else (taken as a host name); every
\* network of every prefix length is written once, with its last address
\* (as in "192.168.101.255/24")
CIDRSpecs ==
    {h \in [kind : {"cidr"}, fam : {4}, val : IPVals, len : 0..AddrBits,
            name : {""}] :
        h.val % Pow2(AddrBits - h.len) = Pow2(AddrBits - h.len) - 1}
IPSpecs   == [kind : {"ip"}, fam : {4}, val : IPVals, len : {0}, name : {""}]
             \cup {[kind |-> "ip", fam |-> 6, val |-> 0, len |-> 0, name |-> ""]}
NameSpecs == [kind : {"name"}, fam : {0}, val : {0}, len : {0},
              name : {"logger"}]
HostSpecs == CIDRSpecs \cup IPSpecs \cup NameSpecs

\* what net.LookupIP may return for a host name: an error, or its addresses
LookupResults ==
    {[err |-> TRUE, ips |-> <<>>],
     [err |-> FALSE, ips |-> <<[fam |-> 6, val |-> 0], [fam |-> 4, val |-> 2]>>]}

\* net.ParseCIDR(h): the network, its address masked by its prefix
ParseCIDR(h) ==
    [fam |-> h.fam, val |-> MaskIP(h.val, h.len), len |-> h.len]

\* net.ParseIP(h)
ParseIP(h) == IF h.kind = "ip" THEN [fam |-> h.fam, val |-> h.val] ELSE NilIP

\* parseHosts' loop over cfg.Hosts from entry i on; dns gives the outcome of
\* net.LookupIP for each host name
RECURSIVE ParseHostsLoop(_, _, _, _, _)
ParseHostsLoop(hosts, i, dns, ah, an) ==
    IF i > Len(hosts) THEN [hosts |-> ah, networks |-> an]
    ELSE LET h == hosts[i] IN
         IF h.kind = "cidr"
         THEN ParseHostsLoop(hosts, i + 1, dns, ah, Append(an, ParseCIDR(h)))
         ELSE IF ParseIP(h) # NilIP
         THEN ParseHostsLoop(hosts, i + 1, dns, Append(ah, ParseIP(h)), an)
         ELSE IF ~dns[h.name].err
         THEN ParseHostsLoop(hosts, i + 1, dns, ah \o dns[h.name].ips, an)
         ELSE ParseHostsLoop(hosts, i + 1, dns, ah, an)

\* h.Equal(clientIP)
EqualIP(h, ip) == h.fam = ip.fam /\ h.val = ip.val

\* Contains with a prefix one bit too short
ContainsShortPrefix(n, ip) ==
    /\ ip.fam = n.fam
    /\ MaskIP(ip.val, IF n.len > 0 THEN n.len - 1 ELSE 0)
         = MaskIP(n.val, IF n.len > 0 THEN n.len - 1 ELSE 0)

\* Contains without the comparison of the address lengths
ContainsAnyLength(n, ip) ==
    MaskIP(ip.val, n.len) = MaskIP(n.val, n.len)

\* n.Contains(clientIP)
Contains(n, ip) ==
    /\ ip.fam = n.fam
    /\ MaskIP(ip.val, n.len) = MaskIP(n.val, n.len)

\* the first loop of onNewConnection: some allowed host equals the client
RECURSIVE HostsLoop(_, _, _)
HostsLoop(ah, i, ip) ==
    IF i > Len(ah) THEN FALSE
    ELSE IF EqualIP(ah[i], ip) THEN TRUE
    ELSE HostsLoop(ah, i + 1, ip)

\* the second loop of onNewConnection: some allowed network contains it
RECURSIVE NetworksLoop(_, _, _)
NetworksLoop(an, i, ip) ==
    IF i > Len(an) THEN FALSE
    ELSE IF Contains(an[i], ip) THEN TRUE
    ELSE NetworksLoop(an, i + 1, ip)

\* what a connection's c.Addr().String() may be: an address net.SplitHostPort
\* rejects ("bad"), a host part that is no IP address ("nonip"), or IP:port
ClientAddrs ==
    {[kind |-> "bad", ip |-> NilIP], [kind |-> "nonip", ip |-> NilIP]}
    \cup [kind : {"ip"}, ip : IPs]

\* ConnectionResult that takes two empty lists as "no restriction"
ConnectionResultOpenWhenEmpty(ah, an, c) ==
    IF c.kind = "bad" THEN "Problem parsing client address"
    ELSE IF ah = <<>> /\ an = <<>> THEN "nil"
    ELSE IF HostsLoop(ah, 1, c.ip) THEN "nil"
    ELSE IF NetworksLoop(an, 1, c.ip) THEN "nil"
    ELSE "Client IP not allowed"

\* onNewConnection's result for a client address
ConnectionResult(ah, an, c) ==
    IF c.kind = "bad" THEN "Problem parsing client address"
    ELSE IF HostsLoop(ah, 1, c.ip) THEN "nil"
    ELSE IF NetworksLoop(an, 1, c.ip) THEN "nil"
    ELSE "Client IP not allowed"

-----------------------------------------------------------------------------
(* The mailbox store, as the envelope uses it *)

\* the bodies of the lines a client may send
Lines == {"l1", "l2"}

\* a maildir.Delivery: the session and recipient it was opened for, its
\* maildir, its content, and its status: "open"; "committed" (Delivery.Close
\* moved it to new/); "aborted" (Delivery.Abort removed it); "closeFailed"
\* (Delivery.Close returned an error: the file is closed and not delivered)
NewDeliveryRec(s, rcpt, dir) ==
    [sess |-> s, rcpt |-> rcpt, dir |-> dir, status |-> "open",
     content |-> <<>>]

\* one call on the store: the method, the handle (0 for a maildir.Dir call),
\* the maildir, the delivery's status before the call, and whether it succeeded
StoreCall(call, h, dir, before, ok) ==
    [call |-> call, h |-> h, dir |-> dir, before |-> before, ok |-> ok]

\* DeliveryWrite that puts the line before the content
DeliveryWriteFront(d, line, ok, torn) ==
    IF d.status # "open" THEN d
    ELSE IF ok THEN [d EXCEPT !.content = <<line>> \o @]
    ELSE IF torn THEN [d EXCEPT !.content = Append(@, "torn")]
    ELSE d

\* delivery.Write(line): a closed file takes no bytes; a failing write to an
\* open one may have written a part of the line ("torn")
DeliveryWrite(d, line, ok, torn) ==
    IF d.status # "open" THEN d
    ELSE IF ok THEN [d EXCEPT !.content = Append(@, line)]
    ELSE IF torn THEN [d EXCEPT !.content = Append(@, "torn")]
    ELSE d

\* delivery.Close(): closes the file and links it into new/ (the commit of
\* the maildir library; the discarding close is Delivery.Abort); on an error
\* the file is closed and nothing is delivered; closing a closed file fails
DeliveryClose(d, ok) ==
    IF d.status # "open" THEN d
    ELSE IF ok THEN [d EXCEPT !.status = "committed"]
    ELSE [d EXCEPT !.status = "closeFailed"]

\* the choice of the first failing call of a loop over the deliveries dl is
\* one the store can make: every delivery before it is open, so its call can
\* succeed (0: no call fails)
CanFailAt(st, dl, f) ==
    /\ f \in 0..Len(dl)
    /\ \A i \in 1..Len(dl) : (f = 0 \/ i < f) => st[dl[i]].status = "open"

\* env.Close's loop from delivery i on; cf is the first delivery whose
\* Close returns an error
RECURSIVE CloseLoop(_, _, _, _, _)
CloseLoop(st, dl, i, cf, calls) ==
    IF i > Len(dl) THEN [store |-> st, calls |-> calls, result |-> "nil"]
    ELSE LET h == dl[i]
             c == StoreCall("Close", h, st[h].dir, st[h].status, i # cf)
         IN  IF i = cf
             THEN [store |-> [st EXCEPT ![h] = DeliveryClose(@, FALSE)],
                   calls |-> Append(calls, c), result |-> "store error"]
             ELSE CloseLoop([st EXCEPT ![h] = DeliveryClose(@, TRUE)],
                            dl, i + 1, cf, Append(calls, c))

\* env.Close
EnvClose(st, dl, cf) == CloseLoop(st, dl, 1, cf, <<>>)

\* WriteLoop that calls delivery.Write a second time when it has failed
RECURSIVE WriteLoopRetry(_, _, _, _, _, _, _, _)
WriteLoopRetry(st, dl, i, line, fa, torn, cf, calls) ==
    IF i > Len(dl) THEN [store |-> st, calls |-> calls, result |-> "nil"]
    ELSE LET h == dl[i]
             c == StoreCall("Write", h, st[h].dir, st[h].status, i # fa)
         IN  IF i = fa
             THEN LET st1 == [st EXCEPT ![h] = DeliveryWrite(@, line, FALSE, torn)]
                      cl  == EnvClose(st1, dl, cf)
                  IN  [store |-> cl.store,
                       calls |-> (calls \o <<c, c>>) \o cl.calls,
                       result |-> "store error"]
             ELSE WriteLoopRetry([st EXCEPT ![h] = DeliveryWrite(@, line, TRUE, FALSE)],
                                 dl, i + 1, line, fa, torn, cf, Append(calls, c))

\* env.Write's loop from delivery i on; fa is the first delivery whose Write
\* returns an error, and cf the choice of the e.Close() that follows it
RECURSIVE WriteLoop(_, _, _, _, _, _, _, _)
WriteLoop(st, dl, i, line, fa, torn, cf, calls) ==
    IF i > Len(dl) THEN [store |-> st, calls |-> calls, result |-> "nil"]
    ELSE LET h == dl[i]
             c == StoreCall("Write", h, st[h].dir, st[h].status, i # fa)
         IN  IF i = fa
             THEN LET st1 == [st EXCEPT ![h] = DeliveryWrite(@, line, FALSE, torn)]
                      cl  == EnvClose(st1, dl, cf)
                  IN  [store |-> cl.store,
                       calls |-> Append(calls, c) \o cl.calls,
                       result |-> "store error"]
             ELSE WriteLoop([st EXCEPT ![h] = DeliveryWrite(@, line, TRUE, FALSE)],
                            dl, i + 1, line, fa, torn, cf, Append(calls, c))

\* EnvWrite that returns an error when e.deliveries is empty
EnvWriteNeedsDelivery(st, dl, line, fa, torn, cf) ==
    IF dl = <<>>
    THEN [store |-> st, calls |-> <<>>, result |-> "no open delivery"]
    ELSE WriteLoop(st, dl, 1, line, fa, torn, cf, <<>>)

\* env.Write
EnvWrite(st, dl, line, fa, torn, cf) ==
    WriteLoop(st, dl, 1, line, fa, torn, cf, <<>>)

\* BeginResult without the check of e.deliveries
BeginResultNoCheck(e) == "nil"

\* env.BeginData after its loop: no delivery in e.deliveries is an error
BeginResult(e) ==
    IF Len(e.deliveries) = 0 THEN "554 5.5.1 Error: no valid recipients"
    ELSE "nil"

\* BeginLoop that logs a store failure and goes on to the next recipient
RECURSIVE BeginLoopSkip(_, _, _, _, _, _)
BeginLoopSkip(s, rcpts, i, fr, kind, e) ==
    IF i > Len(rcpts)
    THEN [e EXCEPT !.result = BeginResult(e)]
    ELSE IF ~HasAt(rcpts[i]) THEN BeginLoopSkip(s, rcpts, i + 1, fr, kind, e)
    ELSE LET dir == UserDir(rcpts[i])
             mk  == StoreCall("Create", 0, dir, "", ~(i = fr /\ kind = "Create"))
             nd  == StoreCall("NewDelivery", 0, dir, "", i # fr)
         IN  IF i = fr /\ kind = "Create"
             THEN BeginLoopSkip(s, rcpts, i + 1, fr, kind,
                      [e EXCEPT !.calls = Append(@, mk)])
             ELSE IF i = fr
             THEN BeginLoopSkip(s, rcpts, i + 1, fr, kind,
                      [e EXCEPT !.destDirs = Append(@, dir),
                                !.calls = @ \o <<mk, nd>>])
             ELSE BeginLoopSkip(s, rcpts, i + 1, fr, kind,
                      [e EXCEPT !.store = Append(@, NewDeliveryRec(s, rcpts[i], dir)),
                                !.destDirs = Append(@, dir),
                                !.deliveries = Append(@, Len(e.store) + 1),
                                !.calls = @ \o <<mk, nd>>])

\* BeginLoop that puts a new delivery at the head of e.deliveries
RECURSIVE BeginLoopPrepend(_, _, _, _, _, _)
BeginLoopPrepend(s, rcpts, i, fr, kind, e) ==
    IF i > Len(rcpts)
    THEN [e EXCEPT !.result = BeginResult(e)]
    ELSE IF ~HasAt(rcpts[i]) THEN BeginLoopPrepend(s, rcpts, i + 1, fr, kind, e)
    ELSE LET dir == UserDir(rcpts[i])
             mk  == StoreCall("Create", 0, dir, "", ~(i = fr /\ kind = "Create"))
             nd  == StoreCall("NewDelivery", 0, dir, "", i # fr)
         IN  IF i = fr /\ kind = "Create"
             THEN [e EXCEPT !.calls = Append(@, mk),
                            !.result = "450 Error: maildir unavailable"]
             ELSE IF i = fr
             THEN [e EXCEPT !.destDirs = Append(@, dir),
                            !.calls = @ \o <<mk, nd>>,
                            !.result = "450 Error: maildir unavailable"]
             ELSE BeginLoopPrepend(s, rcpts, i + 1, fr, kind,
                      [e EXCEPT !.store = Append(@, NewDeliveryRec(s, rcpts[i], dir)),
                                !.destDirs = Append(@, dir),
                                !.deliveries = <<Len(e.store) + 1>> \o @,
                                !.calls = @ \o <<mk, nd>>])

\* env.BeginData's loop from recipient i on; fr is the first recipient for
\* which the store fails, in userDir.Create or in userDir.NewDelivery (kind);
\* e holds the store, e.destDirs, e.deliveries and the calls made so far
RECURSIVE BeginLoop(_, _, _, _, _, _)
BeginLoop(s, rcpts, i, fr, kind, e) ==
    IF i > Len(rcpts)
    THEN [e EXCEPT !.result = BeginResult(e)]
    ELSE IF ~HasAt(rcpts[i]) THEN BeginLoop(s, rcpts, i + 1, fr, kind, e)
    ELSE LET dir == UserDir(rcpts[i])
             mk  == StoreCall("Create", 0, dir, "", ~(i = fr /\ kind = "Create"))
             nd  == StoreCall("NewDelivery", 0, dir, "", i # fr)
         IN  IF i = fr /\ kind = "Create"
             THEN [e EXCEPT !.calls = Append(@, mk),
                            !.result = "450 Error: maildir unavailable"]
             ELSE IF i = fr
             THEN [e EXCEPT !.destDirs = Append(@, dir),
                            !.calls = @ \o <<mk, nd>>,
                            !.result = "450 Error: maildir unavailable"]
             ELSE BeginLoop(s, rcpts, i + 1, fr, kind,
                      [e EXCEPT !.store = Append(@, NewDeliveryRec(s, rcpts[i], dir)),
                                !.destDirs = Append(@, dir),
                                !.deliveries = Append(@, Len(e.store) + 1),
                                !.calls = @ \o <<mk, nd>>])

\* env.BeginData
EnvBeginData(s, st, en, fr, kind) ==
    LET e0 == [store |-> st, destDirs |-> en.destDirs,
               deliveries |-> en.deliveries, calls |-> <<>>, result |-> ""]
    IN  IF Len(en.rcpts) = 0
        THEN [e0 EXCEPT !.result = "554 5.5.1 Error: no valid recipients"]
        ELSE BeginLoop(s, en.rcpts, 1, fr, kind, e0)

\* WhitelistLoop comparing without regard to case
FoldCase(str) == [i \in 1..Len(str) |-> IF str[i] = "A" THEN "a" ELSE str[i]]
RECURSIVE WhitelistLoopFold(_, _, _)
WhitelistLoopFold(emails, i, email) ==
    IF i > Len(emails) THEN FALSE
    ELSE IF FoldCase(email) = FoldCase(emails[i]) THEN TRUE
    ELSE WhitelistLoopFold(emails, i + 1, email)

\* env.AddRecipient's loop over cfg.Emails: an entry equals the address
RECURSIVE WhitelistLoop(_, _, _)
WhitelistLoop(emails, i, email) ==
    IF i > Len(emails) THEN FALSE
    ELSE IF email = emails[i] THEN TRUE
    ELSE WhitelistLoop(emails, i + 1, email)

\* env.AddRecipient: the new e.rcpts and the result
EnvAddRecipient(emails, rcpts, email) ==
    IF WhitelistLoop(emails, 1, email)
    THEN [rcpts |-> Append(rcpts, email), result |-> "nil"]
    ELSE [rcpts |-> rcpts, result |-> "Recipient not in whitelist"]

-----------------------------------------------------------------------------
(* The state machine *)

\* the connections being served
Sessions == DOMAIN sess

\* the recipient addresses a client offers and a configuration lists: two
\* that differ in case only, a third, and one without "@"
RcptAddrs == {<<"a", "@", "x">>, <<"A", "@", "x">>, <<"b", "@", "x">>,
              <<"a">>}

\* the configuration under which the envelope is explored: a network and an
\* address as hosts (as in TestReadConfig), and as emails two addresses that
\* differ from the third offered address, and one entry without "@"
ExampleConfig ==
    [Hosts  |-> <<[kind |-> "cidr", fam |-> 4, val |-> 2, len |-> 1, name |-> ""],
                  [kind |-> "ip", fam |-> 4, val |-> 1, len |-> 0, name |-> ""]>>,
     Emails |-> <<<<"a", "@", "x">>, <<"b", "@", "x">>, <<"a">>>>]

\* a connection without an envelope; onNewMail returns &env{}
NoSession == [conn |-> "none", env |-> FALSE, rcpts |-> <<>>,
              destDirs |-> <<>>, deliveries |-> <<>>]

\* the debug flag and the log: cmdline.Debug is false unless -debug is given
NoLog == [Debug |-> FALSE, out |-> <<>>]

\* logDebugf that writes whatever the flag says
logDebugfAlways(lg, msg) == [lg EXCEPT !.out = Append(@, msg)]

\* logDebugf(format, v...): log.Printf when cmdline.Debug is set
logDebugf(lg, msg) ==
    IF lg.Debug THEN [lg EXCEPT !.out = Append(@, msg)] ELSE lg

\* the calls of logDebugf a handler makes, in order
RECURSIVE LogDebugfEach(_, _, _)
LogDebugfEach(lg, msgs, i) ==
    IF i > Len(msgs) THEN lg
    ELSE LogDebugfEach(logDebugf(lg, msgs[i]), msgs, i + 1)

\* what onNewConnection hands to logDebugf for a client address
ConnectionLog(ah, an, c) ==
    IF c.kind = "bad" THEN <<>>
    ELSE IF HostsLoop(ah, 1, c.ip)
         THEN <<"Connection from", "allowed by hosts">>
    ELSE IF NetworksLoop(an, 1, c.ip)
         THEN <<"Connection from", "allowed by network">>
    ELSE <<"Connection from", "rejected">>

\* what BeginData hands to logDebugf: one message for each recipient without
\* "@" that its loop reaches (fr is the recipient whose store call fails)
BeginDataLog(rcpts, fr) ==
    LET reached == SubSeq(rcpts, 1, IF fr = 0 THEN Len(rcpts) ELSE fr)
        skipped == SelectSeq(reached, LAMBDA r : ~HasAt(r))
    IN  [i \in 1..Len(skipped) |-> "Skipping recipient"]

\* the record of a call: the hook or method, its connection and argument,
\* its result, and the store calls it made
Call(op, s, client, email, line, result, calls) ==
    [op |-> op, s |-> s, client |-> client, email |-> email, line |-> line,
     result |-> result, calls |-> calls]

NoCall == [op |-> "none", s |-> 0, client |-> [kind |-> "bad", ip |-> NilIP],
           email |-> <<>>, line |-> "", result |-> "", calls |-> <<>>]

NoClient == [kind |-> "bad", ip |-> NilIP]

NotDerived == [done |-> FALSE, skipped |-> FALSE, user |-> <<>>, dir |-> <<>>]

\* the history of an envelope, kept where on is set: for every AddRecipient
\* call whether it returned nil (verdicts), the number of BeginData calls, 2
\* standing for two or more (begins), the length of e.rcpts at the last of
\* them (begunWith), the lines passed to Write since then (written), whether
\* a store call has failed (failed), and whether Close has returned or a
\* Write has returned an error (terminal)
NoHistory == [on |-> FALSE, verdicts |-> <<>>, begins |-> 0, begunWith |-> 0,
              written |-> <<>>, failed |-> FALSE, terminal |-> FALSE]
EmptyHistory == [NoHistory EXCEPT !.on = TRUE]

\* the history after a call: h2 where the history is kept, h otherwise
Kept(h, h2) == IF h.on THEN h2 ELSE h

InitProgram ==
    /\ phase = "startup"
    /\ logger = NoLog
    /\ allowedHosts = <<>>
    /\ allowedNetworks = <<>>
    /\ store = <<>>
    /\ last = NoCall
    /\ derived = NotDerived

Init ==
    /\ InitProgram
    /\ sess = [s \in {1} |-> NoSession]
    /\ hist = [s \in {1} |-> NoHistory]
    /\ cfg = ExampleConfig
    /\ addr = <<>>

\* main: parseHosts() fills the two global lists, then the server listens
ParseHosts ==
    /\ phase = "startup"
    /\ \E dns \in [{"logger"} -> LookupResults] :
          LET r == ParseHostsLoop(cfg.Hosts, 1, dns, allowedHosts, allowedNetworks)
          IN  /\ allowedHosts' = r.hosts
              /\ allowedNetworks' = r.networks
    /\ phase' = "serving"
    /\ UNCHANGED <<cfg, sess, store, last, addr, derived, hist, logger>>

\* onNewConnection(c): the server serves the connection if it returns nil and
\* refuses it otherwise
OnNewConnection(s, c) ==
    /\ phase = "serving"
    /\ sess[s].conn = "none"
    /\ LET r == ConnectionResult(allowedHosts, allowedNetworks, c)
       IN  /\ sess' = [sess EXCEPT ![s].conn = IF r = "nil" THEN "accepted"
                                                ELSE "none"]
           /\ last' = Call("onNewConnection", s, c, <<>>, "", r, <<>>)
    /\ logger' = LogDebugfEach(logger, ConnectionLog(allowedHosts,
                                                     allowedNetworks, c), 1)
    /\ UNCHANGED <<phase, cfg, allowedHosts, allowedNetworks, store, addr,
                   derived, hist>>

\* OnNewMail that runs parseHosts' loop again, appending to the two lists
OnNewMailReparse(s) ==
    /\ phase = "serving"
    /\ sess[s].conn = "accepted"
    /\ ~sess[s].env
    /\ sess' = [sess EXCEPT ![s] = [NoSession EXCEPT !.conn = "accepted",
                                                     !.env = TRUE]]
    /\ last' = Call("onNewMail", s, NoClient, <<>>, "", "nil", <<>>)
    /\ LET r == ParseHostsLoop(cfg.Hosts, 1,
                               [n \in {"logger"} |-> [err |-> TRUE, ips |-> <<>>]],
                               allowedHosts, allowedNetworks)
       IN  /\ allowedHosts' = r.hosts
           /\ allowedNetworks' = r.networks
    /\ logger' = logDebugf(logger, "letterbox: new mail from")
    /\ UNCHANGED <<phase, cfg, store, addr, derived, hist>>

\* OnNewMail that returns an envelope holding every delivery of the store
OnNewMailShared(s) ==
    /\ phase = "serving"
    /\ sess[s].conn = "accepted"
    /\ ~sess[s].env
    /\ sess' = [sess EXCEPT ![s] =
                  [NoSession EXCEPT !.conn = "accepted", !.env = TRUE,
                                    !.deliveries = [h \in 1..Len(store) |-> h]]]
    /\ last' = Call("onNewMail", s, NoClient, <<>>, "", "nil", <<>>)
    /\ logger' = logDebugf(logger, "letterbox: new mail from")
    /\ UNCHANGED <<phase, cfg, allowedHosts, allowedNetworks, store, addr,
                   derived, hist>>

\* onNewMail(c, from): called for MAIL FROM on a served connection; returns
\* &env{} (each modelled connection carries one envelope)
OnNewMail(s) ==
    /\ phase = "serving"
    /\ sess[s].conn = "accepted"
    /\ ~sess[s].env
    /\ sess' = [sess EXCEPT ![s] = [NoSession EXCEPT !.conn = "accepted",
                                                     !.env = TRUE]]
    /\ last' = Call("onNewMail", s, NoClient, <<>>, "", "nil", <<>>)
    /\ logger' = logDebugf(logger, "letterbox: new mail from")
    /\ UNCHANGED <<phase, cfg, allowedHosts, allowedNetworks, store, addr,
                   derived, hist>>

\* e.AddRecipient(rcpt)
AddRecipient(s, email) ==
    /\ sess[s].env
    /\ hist[s].on => Len(hist[s].verdicts) < MaxOffered
    /\ LET r == EnvAddRecipient(cfg.Emails, sess[s].rcpts, email)
       IN  /\ Len(r.rcpts) <= MaxRcpts
           /\ sess' = [sess EXCEPT ![s].rcpts = r.rcpts]
           /\ last' = Call("AddRecipient", s, NoClient, email, "", r.result, <<>>)
           /\ hist' = [hist EXCEPT ![s] =
                         Kept(@, [@ EXCEPT !.verdicts =
                                              Append(@, r.result = "nil")])]
    /\ UNCHANGED <<phase, cfg, allowedHosts, allowedNetworks, store, addr,
                   derived, logger>>

\* e.BeginData()
BeginData(s) ==
    /\ sess[s].env
    /\ Len(store) + Len(sess[s].rcpts) <= MaxStore
    /\ Len(sess[s].destDirs) + Len(sess[s].rcpts) <= MaxStore
    /\ \E fr \in 0..Len(sess[s].rcpts), kind \in {"Create", "NewDelivery"} :
          /\ fr = 0 => kind = "Create"
          /\ fr # 0 => HasAt(sess[s].rcpts[fr])
          /\ LET r == EnvBeginData(s, store, sess[s], fr, kind)
             IN  /\ store' = r.store
                 /\ sess' = [sess EXCEPT ![s].destDirs = r.destDirs,
                                         ![s].deliveries = r.deliveries]
                 /\ last' = Call("BeginData", s, NoClient, <<>>, "", r.result,
                                 r.calls)
                 /\ logger' = LogDebugfEach(logger,
                                           BeginDataLog(sess[s].rcpts, fr), 1)
                 /\ hist' = [hist EXCEPT ![s] =
                               Kept(@, [@ EXCEPT
                                   !.begins = IF @ < 2 THEN @ + 1 ELSE @,
                                   !.begunWith = Len(sess[s].rcpts),
                                   !.written = <<>>,
                                   !.failed = @ \/ \E k \in 1..Len(r.calls) :
                                                      ~r.calls[k].ok])]
    /\ UNCHANGED <<phase, cfg, allowedHosts, allowedNetworks, addr, derived>>

\* e.Write(line)
Write(s, line) ==
    /\ sess[s].env
    /\ hist[s].on => Len(hist[s].written) < MaxLines
    /\ \A i \in 1..Len(sess[s].deliveries) :
          Len(store[sess[s].deliveries[i]].content) < MaxLines
    /\ \E fa \in 0..Len(sess[s].deliveries), torn \in BOOLEAN,
          cf \in 0..Len(sess[s].deliveries) :
          /\ CanFailAt(store, sess[s].deliveries, fa)
          /\ torn => (fa # 0 /\ store[sess[s].deliveries[fa]].status = "open")
          /\ fa = 0 => cf = 0
          /\ fa # 0 => CanFailAt(store, sess[s].deliveries, cf)
          /\ LET r == EnvWrite(store, sess[s].deliveries, line, fa, torn, cf)
             IN  /\ store' = r.store
                 /\ last' = Call("Write", s, NoClient, <<>>, line, r.result,
                                 r.calls)
                 /\ hist' = [hist EXCEPT ![s] =
                               Kept(@, [@ EXCEPT
                                   !.written = Append(@, line),
                                   !.failed = @ \/ r.result # "nil",
                                   !.terminal = @ \/ r.result # "nil"])]
    /\ UNCHANGED <<phase, cfg, allowedHosts, allowedNetworks, sess, addr,
                   derived, logger>>

\* e.Close()
Close(s) ==
    /\ sess[s].env
    /\ \E cf \in 0..Len(sess[s].deliveries) :
          /\ CanFailAt(store, sess[s].deliveries, cf)
          /\ LET r == EnvClose(store, sess[s].deliveries, cf)
             IN  /\ store' = r.store
                 /\ last' = Call("Close", s, NoClient, <<>>, "", r.result,
                                 r.calls)
                 /\ hist' = [hist EXCEPT ![s] =
                               Kept(@, [@ EXCEPT
                                   !.failed = @ \/ r.result # "nil",
                                   !.terminal = TRUE])]
    /\ UNCHANGED <<phase, cfg, allowedHosts, allowedNetworks, sess, addr,
                   derived, logger>>

Next ==
    \/ ParseHosts
    \/ \E s \in Sessions, c \in ClientAddrs : OnNewConnection(s, c)
    \/ \E s \in Sessions : OnNewMail(s)
    \/ \E s \in Sessions, email \in RcptAddrs : AddRecipient(s, email)
    \/ \E s \in Sessions : BeginData(s)
    \/ \E s \in Sessions, line \in Lines : Write(s, line)
    \/ \E s \in Sessions : Close(s)

Spec == Init /\ [][Next]_vars

-----------------------------------------------------------------------------
(* The configurations: every hosts list up to MaxHosts entries, and every   *)
(* emails list up to MaxEmails entries, explored up to AddRecipient         *)

Configs ==
    [Hosts : SeqsUpTo(HostSpecs, MaxHosts), Emails : {<<>>}]
    \cup [Hosts : {<<>>, ExampleConfig.Hosts} \cup {<<h>> : h \in NameSpecs},
          Emails : SeqsUpTo(RcptAddrs, MaxEmails)]

InitConfig ==
    /\ InitProgram
    /\ sess = [s \in {1} |-> NoSession]
    /\ hist = [s \in {1} |-> NoHistory]
    /\ cfg \in Configs
    /\ addr = <<>>

NextConfig ==
    \/ ParseHosts
    \/ \E s \in Sessions, c \in ClientAddrs : OnNewConnection(s, c)
    \/ \E s \in Sessions : OnNewMail(s)
    \/ \E s \in Sessions, email \in RcptAddrs : AddRecipient(s, email)

SpecConfig == InitConfig /\ [][NextConfig]_vars

-----------------------------------------------------------------------------
(* One envelope with its history kept *)

InitHistory ==
    /\ InitProgram
    /\ sess = [s \in {1} |-> NoSession]
    /\ hist = [s \in {1} |-> EmptyHistory]
    /\ cfg = ExampleConfig
    /\ addr = <<>>

NextHistory ==
    \/ ParseHosts
    \/ \E s \in Sessions, c \in ClientAddrs : OnNewConnection(s, c)
    \/ \E s \in Sessions : OnNewMail(s)
    \/ \E s \in Sessions, email \in RcptAddrs : AddRecipient(s, email)
    \/ \E s \in Sessions : BeginData(s)
    \/ \E s \in Sessions, line \in Lines : Write(s, line)
    \/ \E s \in Sessions : Close(s)

SpecHistory == InitHistory /\ [][NextHistory]_vars

-----------------------------------------------------------------------------
(* One mail transaction in the order of SMTP, with its history kept:        *)
(* AddRecipient for every RCPT TO, BeginData for DATA, Write for every line *)
(* and Close at the end of the data; a call that returns an error after     *)
(* DATA ends the transaction. The store may fail in every call.             *)

\* DATA has not been received: the envelope takes recipients
BeforeData(s) == hist[s].on /\ hist[s].begins = 0

\* BeginData has returned nil and neither a Write has failed nor Close has
\* been called: the envelope takes the lines of the message
InData(s) ==
    /\ hist[s].on
    /\ hist[s].begins = 1
    /\ ~hist[s].failed
    /\ ~hist[s].terminal
    /\ sess[s].deliveries # <<>>

InitTransaction == InitHistory

NextTransaction ==
    \/ ParseHosts
    \/ \E s \in Sessions, c \in ClientAddrs : OnNewConnection(s, c)
    \/ \E s \in Sessions : OnNewMail(s)
    \/ \E s \in Sessions, email \in RcptAddrs :
          BeforeData(s) /\ AddRecipient(s, email)
    \/ \E s \in Sessions : BeforeData(s) /\ BeginData(s)
    \/ \E s \in Sessions, line \in Lines : InData(s) /\ Write(s, line)
    \/ \E s \in Sessions : InData(s) /\ Close(s)

SpecTransaction == InitTransaction /\ [][NextTransaction]_vars

-----------------------------------------------------------------------------
(* Two connections served at the same time: the server runs each session in *)
(* its own goroutine; the hooks and the envelope methods read the globals,   *)
(* write only their own envelope and meet only in the mailbox store, so     *)
(* each call is one step of the interleaving. Each session makes its calls  *)
(* in the order of SMTP; the calls of the two interleave in every way and   *)
(* the store may fail in every call.                                        *)

InitTwoSessions ==
    /\ InitProgram
    /\ sess = [s \in {1, 2} |-> NoSession]
    /\ hist = [s \in {1, 2} |-> EmptyHistory]
    /\ cfg = ExampleConfig
    /\ addr = <<>>

\* what the two clients send: one is an allowed host and one is not; a listed
\* address; one line
TwoSessionClients == {c \in ClientAddrs : c.kind = "ip" /\ c.ip.fam = 4
                                            /\ c.ip.val \in {0, 1}}
TwoSessionRcpts == {<<"a", "@", "x">>}
TwoSessionLines == {"l1"}

NextTwoSessions ==
    \/ ParseHosts
    \/ \E s \in Sessions, c \in TwoSessionClients : OnNewConnection(s, c)
    \/ \E s \in Sessions : OnNewMail(s)
    \/ \E s \in Sessions, email \in TwoSessionRcpts :
          BeforeData(s) /\ AddRecipient(s, email)
    \/ \E s \in Sessions : BeforeData(s) /\ BeginData(s)
    \/ \E s \in Sessions, line \in TwoSessionLines : InData(s) /\ Write(s, line)
    \/ \E s \in Sessions : InData(s) /\ Close(s)

SpecTwoSessions == InitTwoSessions /\ [][NextTwoSessions]_vars

-----------------------------------------------------------------------------
(* The local mailbox name of every address up to MaxAddrLen characters *)

\* one pass of BeginData's loop body for the address addr, up to the
\* computation of userDir
DeriveLocalName ==
    /\ ~derived.done
    /\ derived' = IF ~HasAt(addr)
                  THEN [done |-> TRUE, skipped |-> TRUE, user |-> <<>>,
                        dir |-> <<>>]
                  ELSE [done |-> TRUE, skipped |-> FALSE,
                        user |-> LocalName(addr), dir |-> UserDir(addr)]
    /\ logger' = IF ~HasAt(addr)
                 THEN logDebugf(logger, "Skipping recipient")
                 ELSE logger
    /\ UNCHANGED <<phase, cfg, allowedHosts, allowedNetworks, sess, store,
                   last, addr, hist>>

InitLocalName ==
    /\ InitProgram
    /\ sess = [s \in {1} |-> NoSession]
    /\ hist = [s \in {1} |-> NoHistory]
    /\ cfg = ExampleConfig
    /\ addr \in SeqsUpTo(Chars, MaxAddrLen)

NextLocalName == DeriveLocalName

SpecLocalName == InitLocalName /\ [][NextLocalName]_vars

-----------------------------------------------------------------------------
(* Properties of the envelope (specification Spec) *)

\* the deliveries of session s, as store handles
Deliveries(s) == sess[s].deliveries

\* the statuses of a closed delivery
Closed == {"committed", "aborted", "closeFailed"}

\* C1: when an append fails during Write on an envelope whose N >= 1
\* deliveries are all open, every one of them has been closed in abort mode
\* (and none committed) when Write returns its error.
C1_WriteFailureAbortsAll ==
    [][\A s \in Sessions :
          (/\ last'.op = "Write" /\ last'.s = s /\ last'.result # "nil"
           /\ Len(Deliveries(s)) >= 1
           /\ \A i \in 1..Len(Deliveries(s)) :
                 store[Deliveries(s)[i]].status = "open")
          => \A i \in 1..Len(Deliveries(s)) :
                 store'[Deliveries(s)[i]].status = "aborted"]_vars

\* C2: in every state, either no delivery of a session is committed or all
\* of them are, with the same content (close failures set aside); and when an
\* append has just failed, no delivery of the session is committed.
C2_AllOrNothing ==
    \A s \in Sessions :
       LET dl == Deliveries(s)
           committed == {i \in 1..Len(dl) : store[dl[i]].status = "committed"}
       IN  /\ (\A i \in 1..Len(dl) : store[dl[i]].status # "closeFailed")
               => \/ committed = {}
                  \/ /\ committed = 1..Len(dl)
                     /\ \A i, j \in 1..Len(dl) :
                           store[dl[i]].content = store[dl[j]].content
           /\ (last.op = "Write" /\ last.s = s /\ last.result # "nil")
               => committed = {}

\* C3: no call of the envelope issues an append to a delivery that has
\* already been closed.
C3_NoWriteAfterClose ==
    \A k \in 1..Len(last.calls) :
       last.calls[k].call = "Write" => last.calls[k].before = "open"

\* C10: when BeginData, Write or Close returns an error, no delivery of the
\* envelope is left open.
C10_ErrorLeavesNothingOpen ==
    (last.op \in {"BeginData", "Write", "Close"} /\ last.result # "nil")
    => \A i \in 1..Len(Deliveries(last.s)) :
          store[Deliveries(last.s)[i]].status \in Closed

\* the store calls of the last call that satisfy P
CallsWhere(P(_)) == {k \in 1..Len(last.calls) : P(last.calls[k])}

IsCreate(c) == c.call = "Create"
IsOpened(c) == c.call = "NewDelivery" /\ c.ok
IsFailed(c) == ~c.ok

\* the recipients of session s that BeginData does not skip
WithAt(s) == {i \in 1..Len(sess[s].rcpts) : HasAt(sess[s].rcpts[i])}

NoValidRecipients == "554 5.5.1 Error: no valid recipients"
MaildirUnavailable == "450 Error: maildir unavailable"

\* C8: BeginData returns success only if the envelope has a recipient and the
\* call opened a delivery; with no recipient it fails with 554 5.5.1 and makes
\* no store call.
C8_BeginDataSuccess ==
    last.op = "BeginData" =>
       /\ last.result = "nil" =>
             /\ Len(sess[last.s].rcpts) >= 1
             /\ CallsWhere(IsOpened) # {}
             /\ Len(Deliveries(last.s)) >= 1
       /\ Len(sess[last.s].rcpts) = 0 =>
             /\ last.result = NoValidRecipients
             /\ last.calls = <<>>
             /\ Deliveries(last.s) = <<>>

\* BeginData has returned success
C8_Witness ==
    /\ last.op = "BeginData" /\ last.result = "nil"
    /\ CallsWhere(IsOpened) # {}

\* C9 as stated: a recipient whose maildir cannot be created or opened is
\* skipped, every recipient is attempted, and BeginData fails only with
\* 554 5.5.1, when no delivery was opened.
C9_SkipOnStoreFailure ==
    last.op = "BeginData" =>
       /\ Cardinality(CallsWhere(IsCreate)) = Cardinality(WithAt(last.s))
       /\ last.result # "nil" =>
             (last.result = NoValidRecipients /\ CallsWhere(IsOpened) = {})

\* C9 as amended: the first store failure ends BeginData with 450 and no
\* later recipient is attempted; without a store failure every recipient with
\* "@" is attempted and the result is 554 5.5.1 exactly when e.deliveries is
\* empty.
C9_StopOnStoreFailure ==
    last.op = "BeginData" =>
       LET dl == Deliveries(last.s) IN
       /\ CallsWhere(IsFailed) # {} =>
             /\ last.result = MaildirUnavailable
             /\ CallsWhere(IsFailed) = {Len(last.calls)}
       /\ CallsWhere(IsFailed) = {} =>
             /\ Len(sess[last.s].rcpts) > 0 =>
                   Cardinality(CallsWhere(IsCreate)) = Cardinality(WithAt(last.s))
             /\ last.result = IF Len(dl) = 0 THEN NoValidRecipients ELSE "nil"

\* BeginData has opened a delivery for one recipient and failed on the next
C9_Witness ==
    /\ last.op = "BeginData" /\ last.result = MaildirUnavailable
    /\ CallsWhere(IsOpened) # {}
    /\ Len(last.calls) > Cardinality(WithAt(last.s))

-----------------------------------------------------------------------------
(* Properties of the local mailbox name (specification SpecLocalName) *)

\* a single path segment: not empty, no separator, and not "." or ".."
SingleSegment(u) ==
    /\ u # <<>>
    /\ \A i \in 1..Len(u) : u[i] # "/"
    /\ u # <<".">>
    /\ u # <<".", ".">>

\* dir is a strict child of the mailbox root: the root, "/", one segment
StrictChild(dir) ==
    /\ Len(dir) > Len(Maildirs) + 1
    /\ SubSeq(dir, 1, Len(Maildirs) + 1) = Maildirs \o <<"/">>
    /\ SingleSegment(SubSeq(dir, Len(Maildirs) + 2, Len(dir)))

\* C4: for every address with an "@", the local name derived from the text
\* before the first "@" is a single path segment, and the maildir path is a
\* strict child of the mailbox root.
C4_LocalNameIsSegment ==
    (derived.done /\ ~derived.skipped)
    => (SingleSegment(derived.user) /\ StrictChild(derived.dir))

-----------------------------------------------------------------------------
(* Properties of the admission (specification SpecConfig) *)

Reverse(q) == [i \in 1..Len(q) |-> q[Len(q) + 1 - i]]

\* the number of addresses of a network
NetSize(n) == Pow2(AddrBits - n.len)

\* ip lies inside the network n: from its first address to its last
InRange(n, ip) ==
    /\ ip.fam = n.fam
    /\ n.val <= ip.val
    /\ ip.val < n.val + NetSize(n)

\* ip equals an allowed host or lies inside an allowed network
Allowed(ip) ==
    \/ \E i \in 1..Len(allowedHosts) : allowedHosts[i] = ip
    \/ \E j \in 1..Len(allowedNetworks) : InRange(allowedNetworks[j], ip)

\* ip is the address just before or just after the network n
OnePast(n, ip) ==
    /\ ip.fam = n.fam
    /\ (ip.val = n.val + NetSize(n) \/ ip.val = n.val - 1)

\* C5: onNewConnection accepts a client exactly if its address equals an
\* allowed host or lies inside an allowed network; the result is the same for
\* the entries in reverse order; an address one past a network that matches
\* no other entry is rejected.
C5_AcceptIffAllowed ==
    last.op = "onNewConnection" =>
       LET c == last.client IN
       /\ last.result = "nil" <=> (c.kind # "bad" /\ Allowed(c.ip))
       /\ last.result # "nil" => sess[last.s].conn = "none"
       /\ last.result = ConnectionResult(Reverse(allowedHosts),
                                         Reverse(allowedNetworks), c)
       /\ \A j \in 1..Len(allowedNetworks) :
             (/\ c.kind = "ip"
              /\ OnePast(allowedNetworks[j], c.ip)
              /\ \A i \in 1..Len(allowedHosts) : allowedHosts[i] # c.ip
              /\ \A k \in 1..Len(allowedNetworks) :
                    ~InRange(allowedNetworks[k], c.ip))
             => last.result # "nil"

\* a client one past the end of an allowed network has been rejected
C5_Witness ==
    /\ last.op = "onNewConnection" /\ last.result = "Client IP not allowed"
    /\ \E j \in 1..Len(allowedNetworks) :
          /\ allowedNetworks[j].len > 0
          /\ OnePast(allowedNetworks[j], last.client.ip)

\* C6: with an empty allowlist after parseHosts, every client address is
\* rejected and no envelope is created, whatever cfg.Emails holds.
C6_EmptyAllowlistRejectsAll ==
    (phase = "serving" /\ allowedHosts = <<>> /\ allowedNetworks = <<>>)
    => /\ \A s \in Sessions : sess[s] = NoSession
       /\ last.op \in {"none", "onNewConnection"}
       /\ last.result # "nil"

\* every host name of a non-empty hosts list failed to resolve, the emails
\* list is not empty, and a client with an IP address has been rejected
C6_Witness ==
    /\ phase = "serving" /\ allowedHosts = <<>> /\ allowedNetworks = <<>>
    /\ cfg.Hosts # <<>> /\ cfg.Emails # <<>>
    /\ last.op = "onNewConnection" /\ last.client.kind = "ip"
    /\ last.result = "Client IP not allowed"

\* C7: AddRecipient returns nil and appends the address exactly if the
\* address equals an entry of cfg.Emails; otherwise it returns an error and
\* leaves e.rcpts unchanged; the envelope remains in either case.
C7_AddRecipientIffListed ==
    [][last'.op = "AddRecipient" =>
          LET s == last'.s
              listed == \E i \in 1..Len(cfg.Emails) :
                           cfg.Emails[i] = last'.email
          IN  /\ sess'[s].env
              /\ listed => /\ last'.result = "nil"
                           /\ sess'[s].rcpts = Append(sess[s].rcpts, last'.email)
              /\ ~listed => /\ last'.result = "Recipient not in whitelist"
                            /\ sess'[s].rcpts = sess[s].rcpts]_vars

\* an address that differs from a listed one in case only has been rejected
\* by an envelope that holds an accepted recipient
C7_Witness ==
    /\ last.op = "AddRecipient" /\ last.result = "Recipient not in whitelist"
    /\ last.email = <<"A", "@", "x">>
    /\ \E i \in 1..Len(cfg.Emails) : cfg.Emails[i] = <<"a", "@", "x">>
    /\ Len(sess[last.s].rcpts) >= 1

-----------------------------------------------------------------------------
(* Properties of the envelope's life (specifications Spec and SpecHistory) *)

\* the store calls of the last call on the delivery h
CallsOn(call, h) ==
    {k \in 1..Len(last.calls) :
        last.calls[k].call = call /\ last.calls[k].h = h}

\* C11: Close attempts a commit on every open delivery of the envelope, in
\* recipient order: after a Close whose commit of delivery i failed, every
\* delivery after i has had its commit attempted too, so none is left open
\* without a Close call.
C11_CloseCommitsRemaining ==
    last.op = "Close" =>
       \A i \in 1..Len(Deliveries(last.s)) :
          store[Deliveries(last.s)[i]].status = "open"
          => CallsOn("Close", Deliveries(last.s)[i]) # {}

\* C12: a Close on an envelope on which Close has already returned, or whose
\* Write has already failed, issues no store call on any delivery and leaves
\* every delivery as it was.
C12_CloseIdempotent ==
    [][\A s \in Sessions :
          (last'.op = "Close" /\ last'.s = s /\ hist[s].terminal)
          => (last'.calls = <<>> /\ store' = store)]_vars

\* the envelope of the last call was offered a listed address, an address
\* that is not listed and a listed address, in this order, and the last call
\* is a BeginData during which the store did not fail and before which the
\* envelope held no delivery
OfferedOkBadOk ==
    /\ last.op = "BeginData"
    /\ hist[last.s].verdicts = <<TRUE, FALSE, TRUE>>
    /\ CallsWhere(IsFailed) = {}
    /\ Cardinality(CallsWhere(IsOpened)) = Len(Deliveries(last.s))

\* delivery i of session s is open, in the maildir of recipient i
OpenFor(s, i) ==
    LET d == store[Deliveries(s)[i]]
    IN  /\ d.status = "open"
        /\ d.sess = s
        /\ d.rcpt = sess[s].rcpts[i]
        /\ d.dir = UserDir(sess[s].rcpts[i])

\* BeginData returned nil and left two open deliveries, for the two listed
\* addresses in their order
TwoOpenDeliveries ==
    /\ last.result = "nil"
    /\ Len(sess[last.s].rcpts) = 2
    /\ Len(Deliveries(last.s)) = 2
    /\ Deliveries(last.s)[1] # Deliveries(last.s)[2]
    /\ OpenFor(last.s, 1)
    /\ OpenFor(last.s, 2)

\* C13 as stated: offered [ok1, bad, ok2] with ok1 and ok2 listed and bad not,
\* and with no store failure, BeginData returns nil and leaves exactly two
\* open deliveries, for ok1's and ok2's mailboxes in that order.
C13_OkBadOk == OfferedOkBadOk => TwoOpenDeliveries

\* C13 as amended: the same for listed addresses ok1 and ok2 that contain "@".
C13_OkBadOkWithAt ==
    (OfferedOkBadOk /\ \A i \in 1..2 : HasAt(sess[last.s].rcpts[i]))
    => TwoOpenDeliveries

\* two different listed addresses with a refused one between them have been
\* given their deliveries
C13_Witness ==
    /\ OfferedOkBadOk
    /\ TwoOpenDeliveries
    /\ sess[last.s].rcpts = <<<<"a", "@", "x">>, <<"b", "@", "x">>>>

\* the last call is a Close that returned nil on an envelope with two
\* accepted recipients, on which BeginData was called once, after both were
\* accepted, and no store call has failed
ClosedAfterOneBeginData ==
    /\ last.op = "Close"
    /\ last.result = "nil"
    /\ Len(sess[last.s].rcpts) = 2
    /\ hist[last.s].begins = 1
    /\ hist[last.s].begunWith = 2
    /\ ~hist[last.s].failed

\* the store entries of session s that are committed
Committed(s) ==
    {h \in 1..Len(store) : store[h].sess = s /\ store[h].status = "committed"}

\* exactly two entries are committed, one per recipient in its maildir, each
\* holding the lines written since BeginData in the order of the calls
TwoCommittedCopies ==
    LET s == last.s
        dl == Deliveries(s)
    IN  /\ Len(dl) = 2
        /\ Committed(s) = {dl[1], dl[2]}
        /\ dl[1] # dl[2]
        /\ \A i \in 1..2 :
              /\ store[dl[i]].content = hist[s].written
              /\ store[dl[i]].rcpt = sess[s].rcpts[i]
              /\ store[dl[i]].dir = UserDir(sess[s].rcpts[i])

\* C14 as stated: with two accepted recipients and no store failure,
\* BeginData, Write(l1), ..., Write(ln), Close yields exactly two committed
\* entries, one per recipient, each containing l1..ln in call order.
C14_RoundTrip == ClosedAfterOneBeginData => TwoCommittedCopies

\* C14 as amended: the same for two accepted recipients that contain "@".
C14_RoundTripWithAt ==
    (ClosedAfterOneBeginData /\ \A i \in 1..2 : HasAt(sess[last.s].rcpts[i]))
    => TwoCommittedCopies

\* two different lines have been delivered to two different recipients
C14_Witness ==
    /\ ClosedAfterOneBeginData
    /\ TwoCommittedCopies
    /\ sess[last.s].rcpts = <<<<"a", "@", "x">>, <<"b", "@", "x">>>>
    /\ hist[last.s].written = <<"l1", "l2">>

\* e.rcpts and e.deliveries of session s have the same length, and delivery i
\* was opened for recipient i, in that recipient's maildir
Aligned(s) ==
    /\ Len(Deliveries(s)) = Len(sess[s].rcpts)
    /\ \A i \in 1..Len(Deliveries(s)) :
          /\ store[Deliveries(s)[i]].rcpt = sess[s].rcpts[i]
          /\ store[Deliveries(s)[i]].dir = UserDir(sess[s].rcpts[i])

\* C15 as stated: in every reachable state the recipient list and the
\* delivery list of an envelope have the same length and delivery i belongs
\* to recipient i.
C15_ListsAligned == \A s \in Sessions : Aligned(s)

\* C15 as amended: the two lists are aligned when BeginData returns nil on
\* an envelope that held no delivery and whose recipients all contain "@";
\* Write and Close, with any store failure, change neither list nor the
\* recipient and maildir of a delivery.
C15_AlignedAfterBeginData ==
    [][\A s \in Sessions :
          /\ (/\ last'.op = "BeginData" /\ last'.s = s /\ last'.result = "nil"
              /\ Deliveries(s) = <<>>
              /\ \A i \in 1..Len(sess[s].rcpts) : HasAt(sess[s].rcpts[i]))
             => (/\ Len(sess'[s].deliveries) = Len(sess'[s].rcpts)
                 /\ \A i \in 1..Len(sess'[s].deliveries) :
                       /\ store'[sess'[s].deliveries[i]].rcpt = sess'[s].rcpts[i]
                       /\ store'[sess'[s].deliveries[i]].dir
                            = UserDir(sess'[s].rcpts[i]))
          /\ (last'.op \in {"Write", "Close"} /\ last'.s = s)
             => (/\ sess'[s] = sess[s]
                 /\ Len(store') = Len(store)
                 /\ \A h \in 1..Len(store) :
                       /\ store'[h].rcpt = store[h].rcpt
                       /\ store'[h].dir = store[h].dir)]_vars

\* the lists of an envelope with two different recipients are aligned after
\* a Write that failed
C15_Witness ==
    /\ last.op = "Write" /\ last.result # "nil"
    /\ sess[last.s].rcpts = <<<<"a", "@", "x">>, <<"b", "@", "x">>>>
    /\ Aligned(last.s)

\* C16: once Close has returned on an envelope, or one of its Writes has
\* failed, no AddRecipient adds a recipient, no BeginData opens a delivery,
\* and every Write returns an error.
C16_TerminalStates ==
    [][\A s \in Sessions :
          (hist[s].terminal /\ last'.s = s)
          => /\ last'.op = "AddRecipient" => sess'[s].rcpts = sess[s].rcpts
             /\ last'.op = "BeginData" =>
                   /\ Len(store') = Len(store)
                   /\ sess'[s].deliveries = sess[s].deliveries
             /\ last'.op = "Write" => last'.result # "nil"]_vars

-----------------------------------------------------------------------------
(* Properties of concurrent sessions (specification SpecTwoSessions) *)

\* C17: once parseHosts has run, no hook and no envelope method of any
\* session changes cfg (the emails whitelist included), allowedHosts or
\* allowedNetworks.
C17_GlobalsImmutable ==
    [][phase = "serving" =>
          /\ cfg' = cfg
          /\ allowedHosts' = allowedHosts
          /\ allowedNetworks' = allowedNetworks]_vars

\* both sessions have opened a delivery and one of them has closed its
\* envelope, with the lists as parseHosts left them
C17_Witness ==
    /\ phase = "serving"
    /\ \A s \in Sessions : Deliveries(s) # <<>>
    /\ Cardinality(Sessions) = 2
    /\ last.op = "Close"
    /\ cfg = ExampleConfig
    /\ allowedHosts = <<[fam |-> 4, val |-> 1]>>
    /\ allowedNetworks = <<[fam |-> 4, val |-> 2, len |-> 1]>>

\* the places of the envelopes' delivery lists that hold the handle h, in
\* the state after a step
HoldersAfter(h) ==
    {p \in Sessions \X (1..Len(store')) :
        /\ p[2] <= Len(sess'[p[1]].deliveries)
        /\ sess'[p[1]].deliveries[p[2]] = h}

\* C18: onNewMail returns nil and an envelope without recipients and without
\* deliveries; every delivery of the store is held by exactly one envelope,
\* at one place of its list; and a call on one envelope leaves the other
\* session's recipients, lists and deliveries as they were.
C18_EnvelopesDisjoint ==
    [][/\ last'.op = "onNewMail" =>
             /\ last'.result = "nil"
             /\ sess'[last'.s].env
             /\ sess'[last'.s].rcpts = <<>>
             /\ sess'[last'.s].destDirs = <<>>
             /\ sess'[last'.s].deliveries = <<>>
             /\ store' = store
       /\ \A h \in 1..Len(store') :
             /\ Cardinality(HoldersAfter(h)) = 1
             /\ \A p \in HoldersAfter(h) : store'[h].sess = p[1]
       /\ \A t \in Sessions :
             t # last'.s =>
                /\ sess'[t] = sess[t]
                /\ \A i \in 1..Len(sess[t].deliveries) :
                      store'[sess[t].deliveries[i]] = store[sess[t].deliveries[i]]]_vars

\* a Write of the first session has failed and closed its delivery while the
\* delivery of the second session is open with a line written to it
C18_Witness ==
    /\ Cardinality(Sessions) = 2
    /\ last.op = "Write" /\ last.s = 1 /\ last.result # "nil"
    /\ Len(Deliveries(1)) = 1 /\ Len(Deliveries(2)) = 1
    /\ store[Deliveries(1)[1]].status \in Closed
    /\ store[Deliveries(2)[1]].status = "open"
    /\ store[Deliveries(2)[1]].content = <<"l1">>

-----------------------------------------------------------------------------
(* The store calls of one call (specification Spec) *)

\* the recipients of the last call's envelope that BeginData does not skip,
\* in their order
RcptsWithAt == SelectSeq(sess[last.s].rcpts, HasAt)

\* C19: no envelope method repeats a store call: one BeginData calls Create
\* and then NewDelivery at most once for each recipient with "@", in the
\* order of the recipients; one Write calls each delivery's Write at most
\* once (and, when it fails, each delivery's Close at most once); one Close
\* calls each delivery's Close at most once; this holds whether or not a
\* store call fails.
C19_NoRetry ==
    /\ last.op \in {"none", "onNewConnection", "onNewMail", "AddRecipient"}
          => last.calls = <<>>
    /\ last.op = "BeginData" =>
          /\ Len(last.calls) <= 2 * Len(RcptsWithAt)
          /\ \A k \in 1..Len(last.calls) :
                /\ last.calls[k].call
                      = (IF k % 2 = 1 THEN "Create" ELSE "NewDelivery")
                /\ last.calls[k].dir = UserDir(RcptsWithAt[(k + 1) \div 2])
    /\ last.op \in {"Write", "Close"} =>
          /\ \A k \in 1..Len(last.calls) :
                last.calls[k].call \in {"Write", "Close"}
          /\ \A h \in 1..Len(store) :
                /\ Cardinality(CallsOn("Write", h)) <= 1
                /\ Cardinality(CallsOn("Close", h)) <= 1
    /\ last.op = "Close" => CallsWhere(LAMBDA c : c.call = "Write") = {}

\* a Write has failed on the second of two deliveries and has then closed
\* both
C19_Witness ==
    /\ last.op = "Write" /\ last.result # "nil"
    /\ Len(Deliveries(last.s)) = 2
    /\ Len(last.calls) = 4
    /\ ~last.calls[2].ok

-----------------------------------------------------------------------------
(* Client addresses that are no IP address (specification SpecConfig) *)

\* C20: onNewConnection rejects a client address that cannot be split into
\* host and port, and one whose host part is not an IP address, whatever the
\* allowlist holds; the connection is not served.
C20_UnparseableRejected ==
    (last.op = "onNewConnection" /\ last.client.kind \in {"bad", "nonip"})
    => /\ last.result = (IF last.client.kind = "bad"
                         THEN "Problem parsing client address"
                         ELSE "Client IP not allowed")
       /\ sess[last.s].conn = "none"
       /\ ~sess[last.s].env

\* a client whose host part is not an IP address has been rejected under an
\* allowlist with the network of all addresses
C20_Witness ==
    /\ last.op = "onNewConnection" /\ last.client.kind = "nonip"
    /\ last.result = "Client IP not allowed"
    /\ \E j \in 1..Len(allowedNetworks) : allowedNetworks[j].len = 0

-----------------------------------------------------------------------------
(* Write on an envelope without deliveries (specification Spec) *)

\* C21 as amended: a Write on an envelope whose e.deliveries is empty
\* returns nil, makes no store call and leaves the envelope and the store as
\* they were.
C21_WriteWithoutDeliveriesIsNoOp ==
    [][\A s \in Sessions :
          (last'.op = "Write" /\ last'.s = s /\ Deliveries(s) = <<>>)
          => /\ last'.result = "nil"
             /\ last'.calls = <<>>
             /\ sess' = sess
             /\ store' = store]_vars

\* C21 as stated: a Write on an envelope without deliveries returns nil,
\* makes no store call and changes neither the envelope nor the store; and a
\* Write returns nil only on an envelope for which BeginData has succeeded,
\* which has therefore a delivery.
C21_WriteAcceptsOnlyAfterBeginData ==
    [][\A s \in Sessions :
          (last'.op = "Write" /\ last'.s = s)
          => /\ Deliveries(s) = <<>> =>
                   /\ last'.result = "nil"
                   /\ last'.calls = <<>>
                   /\ sess' = sess
                   /\ store' = store
             /\ last'.result = "nil" => Deliveries(s) # <<>>]_vars

\* a Write has returned nil on an envelope without deliveries whose BeginData
\* had failed in NewDelivery for its first recipient
C21_Witness ==
    /\ last.op = "Write" /\ last.result = "nil" /\ last.calls = <<>>
    /\ Deliveries(last.s) = <<>>
    /\ sess[last.s].destDirs # <<>>
    /\ store = <<>>

-----------------------------------------------------------------------------
(* Debug logging (specification SpecLogDebug) *)

\* how many messages the log holds at most
MaxLog == 3

\* the messages handed to logDebugf
DebugMessages == {"logging debug info", "Connection from", "Skipping recipient"}

\* cmdline.Debug is assigned: by flag.Parse for -debug, or directly
SetDebug(b) ==
    /\ logger' = [logger EXCEPT !.Debug = b]
    /\ last' = Call("SetDebug", 0, NoClient, <<>>, "", "", <<>>)
    /\ UNCHANGED <<phase, cfg, allowedHosts, allowedNetworks, sess, store,
                   addr, derived, hist>>

\* logDebugf(msg) is called
CallLogDebugf(msg) ==
    /\ Len(logger.out) < MaxLog
    /\ logger' = logDebugf(logger, msg)
    /\ last' = Call("logDebugf", 0, NoClient, <<>>, msg, "", <<>>)
    /\ UNCHANGED <<phase, cfg, allowedHosts, allowedNetworks, sess, store,
                   addr, derived, hist>>

InitLogDebug ==
    /\ InitProgram
    /\ sess = [s \in {1} |-> NoSession]
    /\ hist = [s \in {1} |-> NoHistory]
    /\ cfg = ExampleConfig
    /\ addr = <<>>

NextLogDebug ==
    \/ \E b \in BOOLEAN : SetDebug(b)
    \/ \E msg \in DebugMessages : CallLogDebugf(msg)

SpecLogDebug == InitLogDebug /\ [][NextLogDebug]_vars

\* C22: the flag is false and the log empty at the start; a call of logDebugf
\* appends its message to the log exactly when cmdline.Debug is true at the
\* call, writes nothing else, and leaves the flag as it was.
C22_LogsIffDebug ==
    /\ ~logger.Debug /\ logger.out = <<>>
    /\ [][last'.op = "logDebugf"
            => /\ logger'.Debug = logger.Debug
               /\ logger.Debug => logger'.out = Append(logger.out, last'.line)
               /\ ~logger.Debug => logger'.out = logger.out]_vars

\* a call made with the flag set has written its message, and the last call,
\* made with the flag clear, has written nothing
C22_Witness ==
    /\ last.op = "logDebugf" /\ last.line = "logging debug info"
    /\ ~logger.Debug
    /\ logger.out = <<"logging debug info">>

=============================================================================
